---- MODULE Spec2Model ----
(***************************************************************************)
(* LegacyLens (src/app.py).                                                *)
(* call_llm selects a provider from the session state and enters           *)
(* call_gemini_api (a retry loop around generate_content) or               *)
(* call_azure_openai_api (one chat completion).  Each blocking operation   *)
(* (a provider call, a backoff sleep) is one step; the code between two    *)
(* blocking operations runs inside the step that precedes it.              *)
(*                                                                         *)
(* Spec      call_llm and the two provider clients, called from the        *)
(*           sessions the sidebar can set up, against every error message  *)
(* LiveSpec  Spec, every provider call and every sleep returning           *)
(* CallSpec  as Spec, from any value of the selected model                 *)
(* ParseSpec parse_llm_response applied to every raw response              *)
(* PageSpec  the whole page: sidebar, text area, the three buttons, the    *)
(*           run of an analysis, the stored results and the report         *)
(* ReportSpec   the page of a user of the Gemini models, with the request  *)
(*              that produced the stored sections recorded                 *)
(* ValidateSpec validate_input applied to code of sizes around the limit   *)
(* PromptSpec   build_user_prompt applied to any code, language and mode   *)
(***************************************************************************)
EXTENDS Integers, Sequences, FiniteSets, TLC

\* ------------------------------------------------------------ constants
MAX_RETRIES == 2
RETRY_DELAY_SECS == 5
TIMEOUT_SLEEP_SECS == 2
INPUT_MAX_CHARS == 40000

\* ------------------------------------------------------------ bounds
\* An error message is up to MaxWords fragments joined by single spaces.
MaxWords == 1
\* Cap on the provider calls of one dispatch (the loop itself stops at
\* MAX_RETRIES + 1; the cap only keeps a broken loop finite).
MaxCalls == 5

\* Bound on the code fences in the Python section of a raw response
MaxFences == 2

\* ------------------------------------------------------------ text
\* Python strings are sequences of characters.  The text emitted by
\* line 808 starts with an emoji and a space, which no phrase contains.
EMPTY_RESPONSE_MSG == "**Empty response.** The model returned no output. This may happen if the input code was flagged by safety filters. Try removing any sensitive data from the code."

\* A string cannot hold a backquote here: the backquote of a Markdown code
\* fence is written ' throughout, so a fence is "'''".

\* The fallback texts of parse_llm_response (lines 749, 751, 753)
NO_SUMMARY == "_No executive summary was generated. The LLM may not have followed the expected format._"
NO_DOCS == "_No technical documentation was generated._"
NO_PYTHON == "_No Python code was generated._"

Chars(s) ==
  CASE s = "api key" -> <<"a","p","i"," ","k","e","y">>
    [] s = "invalid" -> <<"i","n","v","a","l","i","d">>
    [] s = "authenticate" -> <<"a","u","t","h","e","n","t","i","c","a","t","e">>
    [] s = "quota" -> <<"q","u","o","t","a">>
    [] s = "rate" -> <<"r","a","t","e">>
    [] s = "429" -> <<"4","2","9">>
    [] s = "resource" -> <<"r","e","s","o","u","r","c","e">>
    [] s = "timeout" -> <<"t","i","m","e","o","u","t">>
    [] s = "deadline" -> <<"d","e","a","d","l","i","n","e">>
    [] s = "safety" -> <<"s","a","f","e","t","y">>
    [] s = "blocked" -> <<"b","l","o","c","k","e","d">>
    [] s = "harm" -> <<"h","a","r","m">>
    [] s = "authentication" -> <<"a","u","t","h","e","n","t","i","c","a","t","i","o","n">>
    [] s = "401" -> <<"4","0","1">>
    [] s = "404" -> <<"4","0","4">>
    [] s = "not found" -> <<"n","o","t"," ","f","o","u","n","d">>
    [] s = "API key" -> <<"A","P","I"," ","k","e","y">>
    [] s = "Invalid" -> <<"I","n","v","a","l","i","d">>
    [] s = "Unauthenticated" -> <<"U","n","a","u","t","h","e","n","t","i","c","a","t","e","d">>
    [] s = "Authentication" -> <<"A","u","t","h","e","n","t","i","c","a","t","i","o","n">>
    [] s = "Quota" -> <<"Q","u","o","t","a">>
    [] s = "RESOURCE_EXHAUSTED" -> <<"R","E","S","O","U","R","C","E","_","E","X","H","A","U","S","T","E","D">>
    [] s = "Deadline" -> <<"D","e","a","d","l","i","n","e">>
    [] s = "harmful" -> <<"h","a","r","m","f","u","l">>
    [] s = "error" -> <<"e","r","r","o","r">>
    [] s = "timeout rate" -> <<"t","i","m","e","o","u","t"," ","r","a","t","e">>
    [] s = "blocked Deadline" -> <<"b","l","o","c","k","e","d"," ","D","e","a","d","l","i","n","e">>
    [] s = "harmful API key" -> <<"h","a","r","m","f","u","l"," ","A","P","I"," ","k","e","y">>
    [] s = "404 Resource not found" -> <<"4","0","4"," ","R","e","s","o","u","r","c","e"," ","n","o","t"," ","f","o","u","n","d">>
    [] s = "Gemini" -> <<"G","e","m","i","n","i">>
    [] s = "Azure" -> <<"A","z","u","r","e">>
    [] s = "Gemini Flash (Latest)" -> <<"G","e","m","i","n","i"," ","F","l","a","s","h"," ","(","L","a","t","e","s","t",")">>
    [] s = "Gemini 1.5 Pro" -> <<"G","e","m","i","n","i"," ","1",".","5"," ","P","r","o">>
    [] s = "Gemini 1.5 Flash" -> <<"G","e","m","i","n","i"," ","1",".","5"," ","F","l","a","s","h">>
    [] s = "Azure GPT-4" -> <<"A","z","u","r","e"," ","G","P","T","-","4">>
    [] s = "Azure GPT-4o" -> <<"A","z","u","r","e"," ","G","P","T","-","4","o">>
    [] s = "Gemini 2.0 Flash" -> <<"G","e","m","i","n","i"," ","2",".","0"," ","F","l","a","s","h">>
    [] s = "Azure GPT-5" -> <<"A","z","u","r","e"," ","G","P","T","-","5">>
    [] s = "Claude 3" -> <<"C","l","a","u","d","e"," ","3">>
    [] s = "## EXECUTIVE SUMMARY" -> <<"#","#"," ","E","X","E","C","U","T","I","V","E"," ","S","U","M",
          "M","A","R","Y">>
    [] s = "## TECHNICAL DOCUMENTATION" -> <<"#","#"," ","T","E","C","H","N","I","C","A","L"," ","D","O","C",
          "U","M","E","N","T","A","T","I","O","N">>
    [] s = "## PYTHON CODE" -> <<"#","#"," ","P","Y","T","H","O","N"," ","C","O","D","E">>
    [] s = "##executive  summary" -> <<"#","#","e","x","e","c","u","t","i","v","e"," "," ","s","u","m",
          "m","a","r","y">>
    [] s = "##Technical\tDocumentation" -> <<"#","#","T","e","c","h","n","i","c","a","l","\t","D","o","c","u",
          "m","e","n","t","a","t","i","o","n">>
    [] s = "##   python code" -> <<"#","#"," "," "," ","p","y","t","h","o","n"," ","c","o","d","e">>
    [] s = "executive" -> <<"e","x","e","c","u","t","i","v","e">>
    [] s = "summary" -> <<"s","u","m","m","a","r","y">>
    [] s = "technical" -> <<"t","e","c","h","n","i","c","a","l">>
    [] s = "documentation" -> <<"d","o","c","u","m","e","n","t","a","t","i","o","n">>
    [] s = "python" -> <<"p","y","t","h","o","n">>
    [] s = "code" -> <<"c","o","d","e">>
    [] s = "##" -> <<"#","#">>
    [] s = "_No" -> <<"_","N","o">>
    [] s = "'''" -> <<"'","'","'">>
    [] s = "\n" -> <<"\n">>
    [] s = " " -> <<" ">>
    [] s = "s" -> <<"s">>
    [] s = "d" -> <<"d">>
    [] s = "p" -> <<"p">>
    [] s = "x" -> <<"x">>
    [] s = NO_SUMMARY ->
          <<"_","N","o"," ","e","x","e","c","u","t","i","v","e"," ","s","u",
          "m","m","a","r","y"," ","w","a","s"," ","g","e","n","e","r","a","t",
          "e","d","."," ","T","h","e"," ","L","L","M"," ","m","a","y"," ","n",
          "o","t"," ","h","a","v","e"," ","f","o","l","l","o","w","e","d"," ",
          "t","h","e"," ","e","x","p","e","c","t","e","d"," ","f","o","r","m",
          "a","t",".","_">>
    [] s = NO_DOCS ->
          <<"_","N","o"," ","t","e","c","h","n","i","c","a","l"," ","d","o",
          "c","u","m","e","n","t","a","t","i","o","n"," ","w","a","s"," ","g",
          "e","n","e","r","a","t","e","d",".","_">>
    [] s = NO_PYTHON ->
          <<"_","N","o"," ","P","y","t","h","o","n"," ","c","o","d","e"," ",
          "w","a","s"," ","g","e","n","e","r","a","t","e","d",".","_">>
    [] s = "" -> <<>>
    [] s = EMPTY_RESPONSE_MSG ->
          <<"*","*","E","m","p","t","y"," ","r","e","s","p","o","n","s","e",
          ".","*","*"," ","T","h","e"," ","m","o","d","e","l"," ","r","e","t",
          "u","r","n","e","d"," ","n","o"," ","o","u","t","p","u","t","."," ",
          "T","h","i","s"," ","m","a","y"," ","h","a","p","p","e","n"," ","i",
          "f"," ","t","h","e"," ","i","n","p","u","t"," ","c","o","d","e"," ",
          "w","a","s"," ","f","l","a","g","g","e","d"," ","b","y"," ","s","a",
          "f","e","t","y"," ","f","i","l","t","e","r","s","."," ","T","r","y",
          " ","r","e","m","o","v","i","n","g"," ","a","n","y"," ","s","e","n",
          "s","i","t","i","v","e"," ","d","a","t","a"," ","f","r","o","m"," ",
          "t","h","e"," ","c","o","d","e",".">>

UpperCase == <<"A","B","C","D","E","F","G","H","I","J","K","L","M",
               "N","O","P","Q","R","S","T","U","V","W","X","Y","Z">>
LowerCase == <<"a","b","c","d","e","f","g","h","i","j","k","l","m",
               "n","o","p","q","r","s","t","u","v","w","x","y","z">>

\* str.lower(), one character
LowerChar(c) ==
  IF \E i \in DOMAIN UpperCase : UpperCase[i] = c
  THEN LowerCase[CHOOSE i \in DOMAIN UpperCase : UpperCase[i] = c]
  ELSE c

\* str.lower()
Lower(cs) == [i \in DOMAIN cs |-> LowerChar(cs[i])]

\* `p in s` on Python strings: p occurs in s as a contiguous substring
IsSubstring(p, s) ==
  \E k \in 0..(Len(s) - Len(p)) : \A i \in 1..Len(p) : s[k + i] = p[i]

RECURSIVE Join(_)
\* the fragments of a message joined by single spaces
Join(ws) ==
  IF ws = <<>> THEN <<>>
  ELSE IF Len(ws) = 1 THEN Chars(ws[1])
  ELSE Chars(ws[1]) \o <<" ">> \o Join(Tail(ws))

\* str(e): the message of an exception
Str(e) == Join(e)

\* `phrase in error_msg`, error_msg = str(e).lower()
In(phrase, error_msg) == IsSubstring(Chars(phrase), error_msg)

\* s.startswith(p)
IsPrefix(p, s) == Len(p) <= Len(s) /\ SubSeq(s, 1, Len(p)) = p

\* Optional values: <<>> is None, <<v>> is the value v
None == <<>>
Some(v) == <<v>>

RECURSIVE Flat(_)
\* the characters of a text given as its pieces, one after the other
Flat(text) ==
  IF text = <<>> THEN <<>> ELSE Chars(Head(text)) \o Flat(Tail(text))

\* raw[a:b] on a Python string (positions count from 0)
Slice(raw, a, b) == SubSeq(raw, a + 1, b)

\* The characters the regex class \s and str.strip() take for whitespace
Whitespace == {" ", "\n", "\t"}

\* str.strip()
Strip(cs) ==
  LET inked == {i \in DOMAIN cs : cs[i] \notin Whitespace} IN
  IF inked = {} THEN <<>>
  ELSE SubSeq(cs, CHOOSE i \in inked : \A j \in inked : i <= j,
                  CHOOSE i \in inked : \A j \in inked : j <= i)

RECURSIVE CountFrom(_, _, _)
\* str.count(sub): the occurrences of sub from position i on, not overlapping
CountFrom(cs, sub, i) ==
  IF i + Len(sub) > Len(cs) THEN 0
  ELSE IF Slice(cs, i, i + Len(sub)) = sub
       THEN 1 + CountFrom(cs, sub, i + Len(sub))
       ELSE CountFrom(cs, sub, i + 1)
Count(cs, sub) == CountFrom(cs, sub, 0)

\* The keys of the sections dict, in the order of `patterns` (lines 724-728)
Keys == <<"executive_summary", "technical_docs", "python_code">>
KeySet == {Keys[i] : i \in DOMAIN Keys}

\* The two words of each pattern: ##\s*WORD1\s+WORD2, re.IGNORECASE
Words(key) ==
  CASE key = "executive_summary" -> <<Chars("executive"), Chars("summary")>>
    [] key = "technical_docs" -> <<Chars("technical"), Chars("documentation")>>
    [] key = "python_code" -> <<Chars("python"), Chars("code")>>

\* the literal w, case ignored, stands in raw at position i
LiteralAt(raw, i, w) ==
  /\ i + Len(w) <= Len(raw)
  /\ \A j \in 1..Len(w) : LowerChar(raw[i + j]) = w[j]

RECURSIVE SkipSpace(_, _)
\* where a greedy \s* or \s+ starting at position i stops
SkipSpace(raw, i) ==
  IF i < Len(raw) /\ raw[i + 1] \in Whitespace THEN SkipSpace(raw, i + 1) ELSE i

\* the pattern of `key` matches raw at position i
MatchAt(raw, i, key) ==
  /\ LiteralAt(raw, i, <<"#", "#">>)
  /\ LET w == Words(key)
         a == SkipSpace(raw, i + 2)
         b == a + Len(w[1])
         c == SkipSpace(raw, b)
     IN /\ LiteralAt(raw, a, w[1])
        /\ c > b
        /\ LiteralAt(raw, c, w[2])

\* re.search(pattern, raw, re.IGNORECASE): None or Some(match.start())
Search(raw, key) ==
  LET hits == {i \in 0..(Len(raw) - 1) : MatchAt(raw, i, key)} IN
  IF hits = {} THEN None
  ELSE Some(CHOOSE i \in hits : \A j \in hits : i <= j)

\* positions, as the loop of lines 732-735 leaves it
Positions(raw) ==
  LET found == [i \in DOMAIN Keys |-> Search(raw, Keys[i])]
      hit == SelectSeq(<<1, 2, 3>>, LAMBDA i : found[i] # None)
  IN [n \in DOMAIN hit |-> [start |-> found[hit[n]][1], key |-> Keys[hit[n]]]]

\* Mutant: the positions are left in the order of `patterns`
Unsorted(positions) == positions

RECURSIVE SortByStart(_)
\* positions.sort(key=lambda x: x[0]) (line 738)
SortByStart(positions) ==
  IF positions = <<>> THEN <<>>
  ELSE LET x == Head(positions)
           rest == SortByStart(Tail(positions))
           k == Cardinality({n \in DOMAIN rest : rest[n].start < x.start})
       IN SubSeq(rest, 1, k) \o <<x>> \o SubSeq(rest, k + 1, Len(rest))

\* Mutant: the section starts at its heading, not after the heading's line
HeadingEndAtStart(raw, start) == start

\* heading_end (line 743): just after the first newline at or after start
HeadingEnd(raw, start) ==
  LET newlines == {i \in start..(Len(raw) - 1) : raw[i + 1] = "\n"} IN
  IF newlines # {}
  THEN (CHOOSE i \in newlines : \A j \in newlines : i <= j) + 1
  ELSE Len(raw)

\* The loop of lines 741-746: the text of each located section
Extract(raw, positions) ==
  [key \in KeySet |->
     IF \E i \in DOMAIN positions : positions[i].key = key
     THEN LET i == CHOOSE n \in DOMAIN positions : positions[n].key = key
              heading_end == HeadingEnd(raw, positions[i].start)
              end == IF i + 1 <= Len(positions)
                     THEN positions[i + 1].start
                     ELSE Len(raw)
          IN Strip(Slice(raw, heading_end, end))
     ELSE <<>>]

\* The text put in place of an empty section (lines 748-753)
Fallback(key) ==
  CASE key = "executive_summary" -> Chars(NO_SUMMARY)
    [] key = "technical_docs" -> Chars(NO_DOCS)
    [] key = "python_code" -> Chars(NO_PYTHON)

\* Mutant: an empty technical_docs is left empty
FallbacksButDocs(found) ==
  [key \in KeySet |->
     IF found[key] = <<>> /\ key # "technical_docs"
     THEN Fallback(key) ELSE found[key]]

\* `if not sections[key]: sections[key] = ...` (lines 748-753)
Fallbacks(found) ==
  [key \in KeySet |-> IF found[key] = <<>> THEN Fallback(key) ELSE found[key]]

\* The entry python_code_truncated (lines 756-762): Some(TRUE) when the key
\* is set, None when the dict has no such key
Truncated(python_out) ==
  IF python_out # <<>> /\ ~IsPrefix(Chars("_No"), python_out)
  THEN IF Count(python_out, Chars("'''")) % 2 # 0 THEN Some(TRUE) ELSE None
  ELSE None

\* parse_llm_response (lines 709-764) for a string
parse_llm_response(raw) ==
  LET texts == Fallbacks(Extract(raw, SortByStart(Positions(raw)))) IN
  [executive_summary |-> texts["executive_summary"],
   technical_docs |-> texts["technical_docs"],
   python_code |-> texts["python_code"],
   python_code_truncated |-> Truncated(texts["python_code"])]

\* ------------------------------------------------------------ inputs
\* Fragments of provider error messages (mixed case, as providers send them)
Fragments ==
  {"API key", "Invalid", "Unauthenticated", "Authentication", "401",
   "Quota", "rate", "429", "RESOURCE_EXHAUSTED", "timeout", "Deadline",
   "safety", "blocked", "harmful", "404", "not found", "error",
   "timeout rate", "blocked Deadline", "harmful API key",
   "404 Resource not found"}

\* The exceptions a provider SDK may raise, each identified with its message
ProviderErrors ==
  UNION {[1..n -> Fragments] : n \in 0..MaxWords}

\* The RuntimeError raised at lines 807-811 for a falsy response.text
EmptyResponseError == <<EMPTY_RESPONSE_MSG>>

\* A text is written as the sequence of its pieces; <<>> is "".
\* Text payloads: response.text / message.content may be None, "" or text
Texts ==
  {<<>>, <<"## EXECUTIVE SUMMARY", "\n", "s", "\n",
           "## TECHNICAL DOCUMENTATION", "\n", "d", "\n",
           "## PYTHON CODE", "\n", "'''", "\n", "p", "\n", "'''", "\n">>}
Payloads == {None} \cup {Some(t) : t \in Texts}

\* `not x` for an optional string
Falsy(x) == x = None \/ x = Some(<<>>)

\* The headings as a model may write them: as asked, or in another case and
\* with other spacing
Heading(key, form) ==
  CASE key = "executive_summary" ->
         (IF form = 1 THEN "## EXECUTIVE SUMMARY" ELSE "##executive  summary")
    [] key = "technical_docs" ->
         (IF form = 1 THEN "## TECHNICAL DOCUMENTATION"
          ELSE "##Technical\tDocumentation")
    [] key = "python_code" ->
         (IF form = 1 THEN "## PYTHON CODE" ELSE "##   python code")
Forms == {1, 2}

RECURSIVE Fenced(_)
\* Python text with k code fences: opened, filled and closed in turn
Fenced(k) ==
  IF k = 0 THEN <<>>
  ELSE Fenced(k - 1) \o
       (IF k % 2 = 1 THEN <<"'''", "\n", "p", "\n">> ELSE <<"'''", "\n">>)

\* What may follow a heading up to the next one: the rest of the heading's
\* line (a newline or nothing) and the text of the section
LineEnds == {<<"\n">>, <<>>}
Bodies(key) ==
  CASE key = "executive_summary" -> {<<>>, <<"s", "\n">>}
    [] key = "technical_docs" -> {<<>>, <<" ", "d", "\n", "\n">>}
    [] key = "python_code" ->
         {lead \o Fenced(k) :
            lead \in {<<>>, <<"p", "\n">>, <<"_No">>}, k \in 0..MaxFences}
Segments(key, form) ==
  {<<Heading(key, form)>> \o nl \o body :
     nl \in LineEnds, body \in Bodies(key)}

\* The headings of a text in the order they stand in: any of the three,
\* each at most once
Orders ==
  {o \in UNION {[1..n -> KeySet] : n \in 0..3} :
     \A i, j \in DOMAIN o : i # j => o[i] # o[j]}

RECURSIVE TextsIn(_, _)
\* the texts whose headings stand in the order o
TextsIn(o, form) ==
  IF o = <<>> THEN {<<>>}
  ELSE {seg \o rest :
          seg \in Segments(Head(o), form), rest \in TextsIn(Tail(o), form)}

\* The raw responses the parser is applied to: some text before the first
\* heading or none, then the sections in any order
RawTexts ==
  UNION {{before \o text :
            before \in {<<>>, <<"x", "\n">>}, text \in TextsIn(o, form)} :
         o \in Orders, form \in Forms}

\* The legacy code in the text area is written as its runs of characters:
\* <<>> is "", Run("x", 3) is "xxx"
Run(ch, n) == [ch |-> ch, n |-> n]
RECURSIVE CodeLen(_)
\* len(code)
CodeLen(code) ==
  IF code = <<>> THEN 0 ELSE Head(code).n + CodeLen(Tail(code))
\* code.strip() is empty
IsBlank(code) == \A i \in DOMAIN code : code[i].ch \in Whitespace

\* What the text area may hold: nothing, blanks only, code of the largest
\* size accepted, code one character longer
Codes ==
  {<<>>,
   <<Run(" ", 2), Run("\n", 1)>>,
   <<Run("x", INPUT_MAX_CHARS - 1), Run("\n", 1)>>,
   <<Run("x", INPUT_MAX_CHARS), Run("\n", 1)>>}

\* estimate_tokens (lines 615-617)
estimate_tokens(text) == CodeLen(text) \div 4

\* Mutant: the size of the input is not checked
validate_input_any_size(code) ==
  IF code = <<>> \/ IsBlank(code)
  THEN [is_valid |-> FALSE, error_msg |-> "Please paste some code",
        cited |-> <<>>]
  ELSE [is_valid |-> TRUE, error_msg |-> "", cited |-> <<>>]

\* Mutant: code of exactly INPUT_MAX_CHARS characters is rejected too
validate_input_at_limit(code) ==
  IF code = <<>> \/ IsBlank(code)
  THEN [is_valid |-> FALSE, error_msg |-> "Please paste some code",
        cited |-> <<>>]
  ELSE IF CodeLen(code) >= INPUT_MAX_CHARS
  THEN [is_valid |-> FALSE, error_msg |-> "Input too large",
        cited |-> <<CodeLen(code), estimate_tokens(code)>>]
  ELSE [is_valid |-> TRUE, error_msg |-> "", cited |-> <<>>]

\* validate_input (lines 620-639); error_msg "" stands for None, and cited
\* holds the numbers the message is formatted with: char_count, est_tokens
validate_input(code) ==
  IF code = <<>> \/ IsBlank(code)
  THEN [is_valid |-> FALSE, error_msg |-> "Please paste some code",
        cited |-> <<>>]
  ELSE IF CodeLen(code) > INPUT_MAX_CHARS
  THEN [is_valid |-> FALSE, error_msg |-> "Input too large",
        cited |-> <<CodeLen(code), estimate_tokens(code)>>]
  ELSE [is_valid |-> TRUE, error_msg |-> "", cited |-> <<>>]

\* The sizes of the code validate_input is applied to: small ones, and the
\* ones around INPUT_MAX_CHARS
Sizes ==
  {1, 3, 4, INPUT_MAX_CHARS - 1, INPUT_MAX_CHARS, INPUT_MAX_CHARS + 1,
   INPUT_MAX_CHARS + 4}
\* Code of one run of a character, or of two runs of different characters
ValidateCodes ==
  {<<>>}
    \cup {<<Run(ch, n)>> : ch \in {"x", " ", "\n"}, n \in Sizes}
    \cup {<<Run(a, n), Run(b, 1)>> :
            a \in {"x", " "}, b \in {"x", "\n"}, n \in Sizes}

\* SUPPORTED_LANGUAGES (lines 270-277), the options of the language
\* selectbox (line 1080)
Languages ==
  {"RPGLE / AS400", "COBOL", "JCL", "PL/I", "Natural / ADABAS",
   "CL (Control Language)"}
\* The languages the user of the page chooses among
PageLanguages == {"RPGLE / AS400", "COBOL"}

\* The modes of the three buttons (lines 1281-1286)
Modes == {"full", "docs_only", "python_only"}

\* What the provider does in a run of the whole page: it returns a payload,
\* or raises an exception of a kind that is retried, or of one that is not
PageTexts ==
  Texts \cup {<<"## EXECUTIVE SUMMARY", "\n", "s", "\n",
                "## TECHNICAL DOCUMENTATION", "\n", "d", "\n">>}
PageOutcomes ==
  [raised : {FALSE}, text : {None} \cup {Some(t) : t \in PageTexts}, e : {<<>>}]
    \cup [raised : {TRUE}, text : {None}, e : {<<"timeout">>, <<"error">>}]

\* What one SDK call does: returns a payload or raises an exception
Outcomes ==
  [raised : {FALSE}, text : Payloads, e : {<<>>}]
    \cup [raised : {TRUE}, text : {None}, e : ProviderErrors]

\* The options of the sidebar's model selectbox (line 1068)
Models ==
  {"Gemini Flash (Latest)", "Gemini 1.5 Pro", "Gemini 1.5 Flash",
   "Azure GPT-4", "Azure GPT-4o"}
\* What st.session_state["selected_model"] may hold when call_llm reads it
\* (line 943): an option of the selectbox, or any other string
ProviderNames == Models \cup {"Gemini 2.0 Flash", "Azure GPT-5", "Claude 3", ""}
\* provider.startswith("Gemini") / provider.startswith("Azure") (945, 957)
GeminiNames ==
  {provider \in ProviderNames : IsPrefix(Chars("Gemini"), Chars(provider))}
AzureNames ==
  {provider \in ProviderNames : IsPrefix(Chars("Azure"), Chars(provider))}
StartsWithGemini(provider) == provider \in GeminiNames
StartsWithAzure(provider) == provider \in AzureNames

\* model_map (lines 950-954) and its lookup with a default (line 955)
model_map ==
  [provider \in {"Gemini Flash (Latest)", "Gemini 1.5 Pro", "Gemini 1.5 Flash"} |->
     CASE provider = "Gemini Flash (Latest)" -> "gemini-flash-latest"
       [] provider = "Gemini 1.5 Pro" -> "gemini-1.5-pro"
       [] provider = "Gemini 1.5 Flash" -> "gemini-1.5-flash"]
Get(map, key, default) == IF key \in DOMAIN map THEN map[key] ELSE default

\* mode_instruction (lines 687-691): the instruction of each mode
mode_instruction ==
  [mode \in {"full", "docs_only", "python_only"} |->
     CASE mode = "full" -> "Provide ALL THREE sections"
       [] mode = "docs_only" -> "Provide ONLY the documentation sections"
       [] mode = "python_only" -> "Provide ONLY the Python Code section"]

\* Mutant: a mode outside the mapping gets the instruction of docs_only
build_user_prompt_docs_default(legacy_code, language, mode) ==
  [language |-> language,
   instruction |-> Get(mode_instruction, mode, mode_instruction["docs_only"]),
   legacy_code |-> legacy_code]

\* build_user_prompt (lines 680-703): what the prompt is formatted with
build_user_prompt(legacy_code, language, mode) ==
  [language |-> language,
   instruction |-> Get(mode_instruction, mode, mode_instruction["full"]),
   legacy_code |-> legacy_code]

\* The modes build_user_prompt is applied to: the three of the buttons, and
\* strings outside the mapping
PromptModes == Modes \cup {"", "FULL", "full ", "docs", "python", "summary"}

\* What a sidebar text input may hold: nothing or something
Entries == {"", "set"}

\* ------------------------------------------------------------ state
VARIABLES
  selected_model,    \* st.session_state["selected_model"]
  gemini_api_key,    \* st.session_state["gemini_api_key"]
  azure_api_key,     \* st.session_state["azure_api_key"]
  azure_endpoint,    \* st.session_state["azure_endpoint"]
  azure_deployment,  \* st.session_state["azure_deployment"]
  pc,                \* where the run is: idle, gemini_call, sleeping,
                     \* azure_call, returned, failed
  attempt,           \* the loop variable of call_gemini_api (0 outside)
  last_error,        \* None or Some(e): the exception being handled
  response,          \* None or Some(payload): what the last SDK call returned
  raw_response,      \* None or Some(payload): what the dispatch returned
  error,             \* the RuntimeError the dispatch raised ("" if none)
  trace,             \* what this dispatch did so far, in order
  model_name,        \* the model ID call_llm passes to call_gemini_api
  rpgle_input,       \* st.session_state["rpgle_input"], the text area
  action_mode,       \* the mode of the button clicked ("" outside a run)
  sections,          \* None or Some(what parse_llm_response returned)
  executive_summary, \* st.session_state["executive_summary"]
  technical_docs,    \* st.session_state["technical_docs"]
  python_code,       \* st.session_state["python_code"]
  last_action_mode,  \* None (key absent) or Some(mode)
  analysis_complete, \* st.session_state["analysis_complete"]
  selected_language, \* st.session_state["selected_language"]
  user_prompt,       \* the prompt call_llm built (<<>> outside a run)
  genai_api_key,     \* the key the google.generativeai module is
                     \* configured with ("" before any configure)
  request            \* history: None or Some(the input, provider and
                     \* language of the run that stored the sections)

session == <<selected_model, gemini_api_key, azure_api_key, azure_endpoint,
             azure_deployment>>
\* The results of the last analysis, as the session keeps them
results == <<executive_summary, technical_docs, python_code, last_action_mode,
             analysis_complete>>
\* What the main area keeps: the input, and the results of the last run
app == <<rpgle_input, action_mode, sections, executive_summary,
         technical_docs, python_code, last_action_mode, analysis_complete>>
vars == <<selected_model, gemini_api_key, azure_api_key, azure_endpoint,
          azure_deployment, pc, attempt, last_error, response, raw_response,
          error, trace, model_name, rpgle_input, action_mode, sections,
          executive_summary, technical_docs, python_code, last_action_mode,
          analysis_complete, selected_language, user_prompt, genai_api_key,
          request>>
\* The language, and what outlives a run outside the session
context == <<selected_language, user_prompt, genai_api_key, request>>

\* One observable event of a dispatch.  ev is "call" (a provider call is
\* made), "empty" (the call returned a falsy payload), "fail" (an exception
\* reached the handler, which took the branch `kind`), "toast" (a progress
\* notification; wait is the wait time its text cites, NoWait if none),
\* "sleep" (time.sleep(wait)), "return" or "raise".
NoWait == -1
Ev(ev, n, kind, wait) == [ev |-> ev, attempt |-> n, kind |-> kind, wait |-> wait]

Events(ev) == {i \in DOMAIN trace : trace[i].ev = ev}
Calls == Cardinality(Events("call"))

\* ------------------------------------------------------------ classification
\* Mutant: the timeout phrases are tested before the rate-limit phrases
GeminiKindTimeoutFirst(e) ==
  LET error_msg == Lower(Str(e)) IN
  IF In("api key", error_msg) \/ In("invalid", error_msg)
       \/ In("authenticate", error_msg)
  THEN "AuthError"
  ELSE IF In("timeout", error_msg) \/ In("deadline", error_msg)
  THEN "Timeout"
  ELSE IF In("quota", error_msg) \/ In("rate", error_msg)
            \/ In("429", error_msg) \/ In("resource", error_msg)
  THEN "RateLimited"
  ELSE IF In("safety", error_msg) \/ In("blocked", error_msg)
            \/ In("harm", error_msg)
  THEN "SafetyBlocked"
  ELSE "Unknown"

\* The branch the except clause of call_gemini_api takes (lines 815-861)
GeminiKind(e) ==
  LET error_msg == Lower(Str(e)) IN
  IF In("api key", error_msg) \/ In("invalid", error_msg)
       \/ In("authenticate", error_msg)
  THEN "AuthError"
  ELSE IF In("quota", error_msg) \/ In("rate", error_msg)
            \/ In("429", error_msg) \/ In("resource", error_msg)
  THEN "RateLimited"
  ELSE IF In("timeout", error_msg) \/ In("deadline", error_msg)
  THEN "Timeout"
  ELSE IF In("safety", error_msg) \/ In("blocked", error_msg)
            \/ In("harm", error_msg)
  THEN "SafetyBlocked"
  ELSE "Unknown"

\* The branch the except clause of call_azure_openai_api takes (904-923)
AzureKind(e) ==
  LET error_msg == Lower(Str(e)) IN
  IF In("authentication", error_msg) \/ In("401", error_msg)
  THEN "AuthError"
  ELSE IF In("429", error_msg) \/ In("rate", error_msg)
  THEN "RateLimited"
  ELSE IF In("timeout", error_msg)
  THEN "Timeout"
  ELSE IF In("404", error_msg) \/ In("not found", error_msg)
  THEN "NotFound"
  ELSE "Unknown"

\* Both classifications of every exception the handlers can see, tabulated
\* (@@ makes each an explicit table, computed once)
AllErrors == ProviderErrors \cup {EmptyResponseError}
GeminiKindOf == [e \in AllErrors |-> GeminiKind(e)] @@ <<>>
AzureKindOf == [e \in ProviderErrors |-> AzureKind(e)] @@ <<>>

\* The RuntimeError each branch of call_gemini_api raises
GeminiError(kind) ==
  CASE kind = "AuthError" -> "Invalid API Key"
    [] kind = "RateLimited" -> "Rate limit reached after retries"
    [] kind = "Timeout" -> "Request timed out after retries"
    [] kind = "SafetyBlocked" -> "Content blocked by safety filters"
    [] OTHER -> "Gemini API Error"

\* The RuntimeError each branch of call_azure_openai_api raises
AzureError(kind) ==
  CASE kind = "AuthError" -> "Authentication failed"
    [] kind = "RateLimited" -> "Rate limit exceeded"
    [] kind = "Timeout" -> "Request timed out"
    [] kind = "NotFound" -> "Deployment not found"
    [] OTHER -> "Azure OpenAI Error"

\* Every branch of the handler of call_azure_openai_api raises (906-923):
\* no failure is retried
AzureRetried(kind, n) == FALSE

\* Mutant: the rate-limit branch retries on every attempt
RateLimitRetryAlways(n) == TRUE

\* `attempt <= MAX_RETRIES` of the rate-limit branch (line 826)
RateLimitRetry(n) == n <= MAX_RETRIES

\* Mutant: the timeout branch retries once only
TimeoutRetryOnce(n) == n <= 1

\* `attempt <= MAX_RETRIES` of the timeout branch (line 842)
TimeoutRetry(n) == n <= MAX_RETRIES

\* Mutant: a safety block is retried like a timeout
RetriedAlsoSafety(kind, n) ==
  \/ kind = "RateLimited" /\ RateLimitRetry(n)
  \/ kind \in {"Timeout", "SafetyBlocked"} /\ TimeoutRetry(n)

\* Mutant: an unclassified failure is retried like a timeout
RetriedAlsoUnknown(kind, n) ==
  \/ kind = "RateLimited" /\ RateLimitRetry(n)
  \/ kind \in {"Timeout", "Unknown"} /\ TimeoutRetry(n)

\* The branches of the handler that end in `continue` (lines 824-850)
Retried(kind, n) ==
  \/ kind = "RateLimited" /\ RateLimitRetry(n)
  \/ kind = "Timeout" /\ TimeoutRetry(n)

\* Mutant: the backoff does not grow with the attempt
RateLimitWaitFlat(n) == RETRY_DELAY_SECS

\* wait_time of the rate-limit branch (line 827)
RateLimitWait(n) == RETRY_DELAY_SECS * n

\* The argument of time.sleep in a retried branch (lines 829, 844)
BackoffWait(kind, n) ==
  IF kind = "RateLimited" THEN RateLimitWait(n) ELSE TIMEOUT_SLEEP_SECS

\* The wait time the toast of a retried branch cites (lines 828, 843)
ToastWait(kind, n) ==
  IF kind = "RateLimited" THEN RateLimitWait(n) ELSE NoWait

\* range(1, MAX_RETRIES + 2) (line 795)
AttemptRange == 1..(MAX_RETRIES + 1)

\* Mutant: the loop variable is not advanced
NextAttemptStuck(n) == n

\* the loop variable of the iteration after n
NextAttempt(n) == n + 1

\* ------------------------------------------------------------ behaviour
\* init_session_state (lines 1021-1044); no run is in progress
Init ==
  /\ selected_model = "Gemini Flash (Latest)"
  /\ gemini_api_key = ""
  /\ azure_api_key = ""
  /\ azure_endpoint = ""
  /\ azure_deployment = ""
  /\ pc = "idle"
  /\ attempt = 0
  /\ last_error = None
  /\ response = None
  /\ raw_response = None
  /\ error = ""
  /\ trace = <<>>
  /\ model_name = ""
  /\ rpgle_input = <<>>
  /\ action_mode = ""
  /\ sections = None
  /\ executive_summary = <<>>
  /\ technical_docs = <<>>
  /\ python_code = <<>>
  /\ last_action_mode = None
  /\ analysis_complete = FALSE
  /\ selected_language = "RPGLE / AS400"
  /\ user_prompt = <<>>
  /\ genai_api_key = ""
  /\ request = None

run == <<pc, attempt, last_error, response, raw_response, error, trace,
        model_name>>

\* The sidebar's model selectbox (lines 1066-1072)
SelectModel ==
  /\ pc = "idle"
  /\ \E m \in Models : selected_model' = m
  /\ UNCHANGED <<gemini_api_key, azure_api_key, azure_endpoint,
                 azure_deployment, run>>
  /\ sections' = None
  /\ UNCHANGED <<rpgle_input, action_mode, results, context>>

\* The Gemini key input, shown while a Gemini model is selected (1089-1098)
EnterGeminiKey ==
  /\ pc = "idle"
  /\ StartsWithGemini(selected_model)
  /\ \E v \in Entries : gemini_api_key' = v
  /\ UNCHANGED <<selected_model, azure_api_key, azure_endpoint,
                 azure_deployment, run>>
  /\ sections' = None
  /\ UNCHANGED <<rpgle_input, action_mode, results, context>>

\* The Azure inputs, shown while an Azure model is selected (1112-1134)
EnterAzureKey ==
  /\ pc = "idle"
  /\ StartsWithAzure(selected_model)
  /\ \E v \in Entries : azure_api_key' = v
  /\ UNCHANGED <<selected_model, gemini_api_key, azure_endpoint,
                 azure_deployment, run>>
  /\ sections' = None
  /\ UNCHANGED <<rpgle_input, action_mode, results, context>>

EnterAzureEndpoint ==
  /\ pc = "idle"
  /\ StartsWithAzure(selected_model)
  /\ \E v \in Entries : azure_endpoint' = v
  /\ UNCHANGED <<selected_model, gemini_api_key, azure_api_key,
                 azure_deployment, run>>
  /\ sections' = None
  /\ UNCHANGED <<rpgle_input, action_mode, results, context>>

EnterAzureDeployment ==
  /\ pc = "idle"
  /\ StartsWithAzure(selected_model)
  /\ \E v \in Entries : azure_deployment' = v
  /\ UNCHANGED <<selected_model, gemini_api_key, azure_api_key,
                 azure_endpoint, run>>
  /\ sections' = None
  /\ UNCHANGED <<rpgle_input, action_mode, results, context>>

\* all([api_key, endpoint, deployment]) (line 962)
AzureCredentialsSet ==
  azure_api_key # "" /\ azure_endpoint # "" /\ azure_deployment # ""

\* The sidebar's language selectbox (lines 1078-1084)
SelectLanguage ==
  /\ pc = "idle"
  /\ \E language \in PageLanguages : selected_language' = language
  /\ sections' = None
  /\ UNCHANGED <<session, run, rpgle_input, action_mode, results,
                 user_prompt, genai_api_key, request>>

\* call_llm (lines 929-971) up to the first blocking operation: the
\* prompt is built, the provider is selected, its credentials are checked,
\* and the provider function is entered (its SDK may be missing: lines
\* 782, 881).  call_gemini_api configures the google.generativeai module
\* with the key (line 788); call_azure_openai_api builds a client of its
\* own (lines 887-891).
call_llm(legacy_code, mode) ==
  /\ user_prompt' = build_user_prompt(legacy_code, selected_language, mode)
  /\ \E sdk_installed \in BOOLEAN :
       LET provider == selected_model IN
       IF StartsWithGemini(provider) THEN
         IF gemini_api_key = "" THEN
           /\ pc' = "failed"
           /\ error' = "Please enter your Gemini API Key"
           /\ UNCHANGED <<attempt, trace, model_name, genai_api_key>>
         ELSE
           /\ model_name' = Get(model_map, provider, "gemini-flash-latest")
           /\ IF ~sdk_installed THEN
                /\ pc' = "failed"
                /\ error' = "google-generativeai is not installed"
                /\ UNCHANGED <<attempt, trace, genai_api_key>>
              ELSE
                /\ genai_api_key' = gemini_api_key
                /\ pc' = "gemini_call"
                /\ attempt' = 1
                /\ UNCHANGED <<error, trace>>
       ELSE IF StartsWithAzure(provider) THEN
         IF ~AzureCredentialsSet THEN
           /\ pc' = "failed"
           /\ error' = "Please enter your Azure OpenAI credentials"
           /\ UNCHANGED <<attempt, trace, model_name, genai_api_key>>
         ELSE IF ~sdk_installed THEN
           /\ pc' = "failed"
           /\ error' = "openai is not installed"
           /\ UNCHANGED <<attempt, trace, model_name, genai_api_key>>
         ELSE
           /\ pc' = "azure_call"
           /\ UNCHANGED <<attempt, error, trace, model_name, genai_api_key>>
       ELSE
         /\ pc' = "failed"
         /\ error' = "Unknown model provider"
         /\ UNCHANGED <<attempt, trace, model_name, genai_api_key>>
  /\ UNCHANGED <<session, last_error, response, raw_response,
                 selected_language, request>>

\* call_llm applied to the session as it is, with its default mode
CallLlm ==
  /\ pc = "idle"
  /\ call_llm(rpgle_input, "full")
  /\ sections' = None
  /\ UNCHANGED <<rpgle_input, action_mode, results>>

\* The except clause of call_gemini_api (lines 814-861) for exception e
\* caught on attempt n, after the events `done` of this iteration
GeminiHandle(e, n, done) ==
  LET kind == GeminiKindOf[e]
      seen == Append(done, Ev("fail", n, kind, NoWait))
  IN
  /\ last_error' = Some(e)
  /\ raw_response' = raw_response
  /\ attempt' = attempt
  /\ IF Retried(kind, n) THEN
       /\ pc' = "sleeping"
       /\ error' = error
       /\ trace' = seen \o <<Ev("toast", n, kind, ToastWait(kind, n)),
                             Ev("sleep", n, kind, BackoffWait(kind, n))>>
     ELSE
       /\ pc' = "failed"
       /\ error' = GeminiError(kind)
       /\ trace' = Append(seen, Ev("raise", n, kind, NoWait))

\* One iteration of the loop of call_gemini_api (lines 795-861): the call
\* to generate_content and everything up to the return, the raise or the
\* start of the backoff sleep
GeminiAttemptOf(outcomes) ==
  /\ pc = "gemini_call"
  /\ Calls < MaxCalls
  /\ \E out \in outcomes :
       LET called == Append(trace, Ev("call", attempt, "", NoWait)) IN
       IF out.raised THEN
         /\ response' = None
         /\ GeminiHandle(out.e, attempt, called)
       ELSE IF Falsy(out.text) THEN
         /\ response' = Some(out.text)
         /\ GeminiHandle(EmptyResponseError, attempt,
                         Append(called, Ev("empty", attempt, "", NoWait)))
       ELSE
         /\ response' = Some(out.text)
         /\ pc' = "returned"
         /\ raw_response' = Some(out.text)
         /\ trace' = Append(called, Ev("return", attempt, "", NoWait))
         /\ UNCHANGED <<attempt, last_error, error>>
  /\ UNCHANGED <<session, model_name, app, context>>

\* call_gemini_api against a provider that may answer with any outcome
GeminiAttempt == GeminiAttemptOf(Outcomes)

\* time.sleep returns and `continue` starts the next iteration (lines
\* 829-830, 844-845); the loop ends when the range is exhausted (line 864).
\* last_error is read only by line 864, so it is dropped once another
\* iteration starts.
SleepReturns ==
  /\ pc = "sleeping"
  /\ LET n == NextAttempt(attempt) IN
     IF n \in AttemptRange THEN
       /\ pc' = "gemini_call"
       /\ attempt' = n
       /\ last_error' = None
       /\ response' = None
       /\ UNCHANGED <<error, trace>>
     ELSE
       /\ pc' = "failed"
       /\ error' = "Failed after retries"
       /\ trace' = Append(trace, Ev("raise", attempt, "Exhausted", NoWait))
       /\ UNCHANGED <<attempt, last_error, response>>
  /\ UNCHANGED <<session, raw_response, model_name, app, context>>

\* call_azure_openai_api (lines 887-923): one chat completion
AzureAttemptOf(outcomes) ==
  /\ pc = "azure_call"
  /\ Calls < MaxCalls
  /\ \E out \in outcomes :
       LET called == Append(trace, Ev("call", 1, "", NoWait)) IN
       IF out.raised THEN
         LET kind == AzureKindOf[out.e] IN
         /\ pc' = "failed"
         /\ response' = None
         /\ last_error' = Some(out.e)
         /\ error' = AzureError(kind)
         /\ trace' = called \o <<Ev("fail", 1, kind, NoWait),
                                 Ev("raise", 1, kind, NoWait)>>
         /\ UNCHANGED raw_response
       ELSE
         /\ pc' = "returned"
         /\ response' = Some(out.text)
         /\ raw_response' = Some(out.text)
         /\ trace' = called \o
              (IF Falsy(out.text) THEN <<Ev("empty", 1, "", NoWait)>> ELSE <<>>)
              \o <<Ev("return", 1, "", NoWait)>>
         /\ UNCHANGED <<last_error, error>>
  /\ UNCHANGED <<session, attempt, model_name, app, context>>

\* call_azure_openai_api against a provider that may answer with any outcome
AzureAttempt == AzureAttemptOf(Outcomes)

\* call_llm is over: its caller has the text, or the RuntimeError (lines
\* 1303, 1335)
Finish ==
  /\ pc \in {"returned", "failed"}
  /\ pc' = "idle"
  /\ attempt' = 0
  /\ last_error' = None
  /\ response' = None
  /\ raw_response' = None
  /\ error' = ""
  /\ trace' = <<>>
  /\ model_name' = ""
  /\ user_prompt' = <<>>
  /\ UNCHANGED <<session, app, selected_language, genai_api_key, request>>

Next ==
  \/ SelectModel
  \/ EnterGeminiKey
  \/ EnterAzureKey
  \/ EnterAzureEndpoint
  \/ EnterAzureDeployment
  \/ CallLlm
  \/ GeminiAttempt
  \/ SleepReturns
  \/ AzureAttempt
  \/ Finish

Spec == Init /\ [][Next]_vars

\* call_llm applied to any session: the selected model may be any string
CallInit ==
  /\ selected_model \in ProviderNames
  /\ gemini_api_key \in Entries
  /\ azure_api_key \in Entries
  /\ azure_endpoint \in Entries
  /\ azure_deployment \in Entries
  /\ pc = "idle"
  /\ attempt = 0
  /\ last_error = None
  /\ response = None
  /\ raw_response = None
  /\ error = ""
  /\ trace = <<>>
  /\ model_name = ""
  /\ rpgle_input = <<>>
  /\ action_mode = ""
  /\ sections = None
  /\ executive_summary = <<>>
  /\ technical_docs = <<>>
  /\ python_code = <<>>
  /\ last_action_mode = None
  /\ analysis_complete = FALSE
  /\ selected_language = "RPGLE / AS400"
  /\ user_prompt = <<>>
  /\ genai_api_key = ""
  /\ request = None

CallSpec == CallInit /\ [][Next]_vars

\* parse_llm_response applied to what a provider client returned (line
\* 1304): its result, or the TypeError re.search raises for None
ParseResponse ==
  /\ pc = "returned"
  /\ LET payload == raw_response[1] IN
     IF payload = None THEN
       /\ pc' = "failed"
       /\ error' = "TypeError"
       /\ sections' = None
     ELSE
       /\ pc' = "parsed"
       /\ error' = error
       /\ sections' = Some(parse_llm_response(Flat(payload[1])))
  /\ UNCHANGED <<session, attempt, last_error, response, raw_response, trace,
                 model_name, rpgle_input, action_mode, executive_summary,
                 technical_docs, python_code, last_action_mode,
                 analysis_complete, context>>

\* parse_llm_response applied to any value a client can return
ParsePayloads == {None} \cup {Some(t) : t \in RawTexts}
ParseInit ==
  /\ selected_model = "Gemini Flash (Latest)"
  /\ gemini_api_key = ""
  /\ azure_api_key = ""
  /\ azure_endpoint = ""
  /\ azure_deployment = ""
  /\ pc = "returned"
  /\ attempt = 0
  /\ last_error = None
  /\ response = None
  /\ raw_response \in {Some(payload) : payload \in ParsePayloads}
  /\ error = ""
  /\ trace = <<>>
  /\ model_name = ""
  /\ rpgle_input = <<>>
  /\ action_mode = ""
  /\ sections = None
  /\ executive_summary = <<>>
  /\ technical_docs = <<>>
  /\ python_code = <<>>
  /\ last_action_mode = None
  /\ analysis_complete = FALSE
  /\ selected_language = "RPGLE / AS400"
  /\ user_prompt = <<>>
  /\ genai_api_key = ""
  /\ request = None

ParseSpec == ParseInit /\ [][ParseResponse]_vars

\* The text area (lines 1236-1242): the user edits the code
EditInput ==
  /\ pc = "idle"
  /\ \E code \in Codes : rpgle_input' = code
  /\ sections' = None
  /\ UNCHANGED <<session, run, action_mode, results, context>>

\* The Clear button (lines 1226-1232)
Clear ==
  /\ pc = "idle"
  /\ rpgle_input' = <<>>
  /\ analysis_complete' = FALSE
  /\ executive_summary' = <<>>
  /\ technical_docs' = <<>>
  /\ python_code' = <<>>
  /\ sections' = None
  /\ UNCHANGED <<session, run, action_mode, last_action_mode, context>>

\* One of the three action buttons is clicked (lines 1280-1303): the input
\* is validated and, when valid, call_llm is entered
Analyze ==
  /\ pc = "idle"
  /\ \E mode \in Modes : action_mode' = mode
  /\ sections' = None
  /\ LET checked == validate_input(rpgle_input) IN
     IF ~checked.is_valid THEN
       /\ pc' = "failed"
       /\ error' = checked.error_msg
       /\ UNCHANGED <<session, attempt, last_error, response, raw_response,
                      trace, model_name, context>>
     ELSE call_llm(rpgle_input, action_mode')
  /\ UNCHANGED <<rpgle_input, results>>

\* Mutant: docs_only stores the Python section as a full run does
StoredAsFull(mode, parsed) ==
  [executive_summary |-> parsed.executive_summary,
   technical_docs |-> parsed.technical_docs,
   python_code |-> parsed.python_code]

\* Mutant: a run keeps what an earlier run stored for the sections that are
\* not of its mode
StoredKeepingStale(mode, parsed) ==
  CASE mode = "full" ->
         [executive_summary |-> parsed.executive_summary,
          technical_docs |-> parsed.technical_docs,
          python_code |-> parsed.python_code]
    [] mode = "docs_only" ->
         [executive_summary |-> parsed.executive_summary,
          technical_docs |-> parsed.technical_docs,
          python_code |-> python_code]
    [] mode = "python_only" ->
         [executive_summary |-> executive_summary,
          technical_docs |-> technical_docs,
          python_code |-> parsed.python_code]

\* What a run of the mode stores of the parsed sections (lines 1306-1318)
Stored(mode, parsed) ==
  CASE mode = "full" ->
         [executive_summary |-> parsed.executive_summary,
          technical_docs |-> parsed.technical_docs,
          python_code |-> parsed.python_code]
    [] mode = "docs_only" ->
         [executive_summary |-> parsed.executive_summary,
          technical_docs |-> parsed.technical_docs,
          python_code |-> <<>>]
    [] mode = "python_only" ->
         [executive_summary |-> <<>>,
          technical_docs |-> <<>>,
          python_code |-> parsed.python_code]

\* call_llm returned (lines 1303-1335): the response is parsed and the
\* sections of the mode are stored; a TypeError of the parser is shown as
\* an unexpected error (line 1337) and nothing is stored
CompleteRun ==
  /\ pc = "returned"
  /\ LET payload == raw_response[1] IN
     IF payload = None THEN
       /\ sections' = None
       /\ UNCHANGED results
     ELSE
       \E parsed \in {parse_llm_response(Flat(payload[1]))} :
         \E kept \in {Stored(action_mode, parsed)} :
           /\ sections' = Some(parsed)
           /\ executive_summary' = kept.executive_summary
           /\ technical_docs' = kept.technical_docs
           /\ python_code' = kept.python_code
           /\ last_action_mode' = Some(action_mode)
           /\ analysis_complete' = TRUE
  /\ pc' = "idle"
  /\ attempt' = 0
  /\ last_error' = None
  /\ response' = None
  /\ raw_response' = None
  /\ error' = ""
  /\ trace' = <<>>
  /\ model_name' = ""
  /\ action_mode' = ""
  /\ user_prompt' = <<>>
  /\ UNCHANGED <<session, rpgle_input, selected_language, genai_api_key>>

\* The step as the page takes it
Complete == CompleteRun /\ UNCHANGED request

\* The same step, with the request that produced the stored sections
\* recorded
CompleteRecorded ==
  /\ CompleteRun
  /\ request' =
       IF raw_response[1] = None THEN request
       ELSE Some([legacy_code |-> rpgle_input, model |-> selected_model,
                  language |-> selected_language])

\* Mutant: showing an error also withdraws the results of the earlier run
ShowErrorWithdrawing ==
  /\ pc = "failed"
  /\ pc' = "idle"
  /\ attempt' = 0
  /\ last_error' = None
  /\ response' = None
  /\ raw_response' = None
  /\ error' = ""
  /\ trace' = <<>>
  /\ model_name' = ""
  /\ action_mode' = ""
  /\ user_prompt' = <<>>
  /\ analysis_complete' = FALSE
  /\ UNCHANGED <<session, rpgle_input, sections, executive_summary,
                 technical_docs, python_code, last_action_mode,
                 selected_language, genai_api_key, request>>

\* The input was rejected or call_llm raised (lines 1291-1292, 1335-1338):
\* the error is shown and nothing is stored
ShowError ==
  /\ pc = "failed"
  /\ pc' = "idle"
  /\ attempt' = 0
  /\ last_error' = None
  /\ response' = None
  /\ raw_response' = None
  /\ error' = ""
  /\ trace' = <<>>
  /\ model_name' = ""
  /\ action_mode' = ""
  /\ user_prompt' = <<>>
  /\ UNCHANGED <<session, rpgle_input, sections, results, selected_language,
                 genai_api_key, request>>

\* The provider calls of a run of the page
PageGeminiAttempt == GeminiAttemptOf(PageOutcomes)
PageAzureAttempt == AzureAttemptOf(PageOutcomes)

\* The whole page: sidebar, text area, buttons, and the run of an analysis
PageNext ==
  \/ SelectModel
  \/ EnterGeminiKey
  \/ EnterAzureKey
  \/ EnterAzureEndpoint
  \/ EnterAzureDeployment
  \/ SelectLanguage
  \/ EditInput
  \/ Clear
  \/ Analyze
  \/ PageGeminiAttempt
  \/ SleepReturns
  \/ PageAzureAttempt
  \/ Complete
  \/ ShowError

PageSpec == Init /\ [][PageNext]_vars

\* report_sections and has_content (lines 1434-1444)
HasContent ==
  \E v \in {executive_summary, technical_docs, python_code} :
    v # <<>> /\ ~IsPrefix(Chars("_No"), v)

\* generate_report_markdown (lines 977-1015): the parts of the report in
\* the order they are written
generate_report_markdown(legacy_code, report_sections) ==
  <<[title |-> "Model", body |-> selected_model],
    [title |-> "Language", body |-> selected_language],
    [title |-> "Original Code", body |-> legacy_code],
    [title |-> "Executive Summary", body |-> report_sections.executive_summary],
    [title |-> "Technical Documentation", body |-> report_sections.technical_docs],
    [title |-> "Modernized Python Code", body |-> report_sections.python_code]>>

\* The report behind the download button as the page shows it (lines
\* 1341, 1434-1447): None when no button is shown
Report ==
  IF analysis_complete /\ HasContent
  THEN Some(generate_report_markdown(rpgle_input,
              [executive_summary |-> executive_summary,
               technical_docs |-> technical_docs,
               python_code |-> python_code]))
  ELSE None

\* validate_input applied to what the text area holds (line 1289)
ValidateInput ==
  /\ pc = "idle"
  /\ \E checked \in {validate_input(rpgle_input)} :
       /\ pc' = IF checked.is_valid THEN "validated" ELSE "failed"
       /\ error' = checked.error_msg
  /\ UNCHANGED <<session, attempt, last_error, response, raw_response, trace,
                 model_name, app, context>>

\* validate_input applied to code of any of the sizes
ValidateInit ==
  /\ selected_model = "Gemini Flash (Latest)"
  /\ gemini_api_key = ""
  /\ azure_api_key = ""
  /\ azure_endpoint = ""
  /\ azure_deployment = ""
  /\ pc = "idle"
  /\ attempt = 0
  /\ last_error = None
  /\ response = None
  /\ raw_response = None
  /\ error = ""
  /\ trace = <<>>
  /\ model_name = ""
  /\ rpgle_input \in ValidateCodes
  /\ action_mode = ""
  /\ sections = None
  /\ executive_summary = <<>>
  /\ technical_docs = <<>>
  /\ python_code = <<>>
  /\ last_action_mode = None
  /\ analysis_complete = FALSE
  /\ selected_language \in Languages
  /\ user_prompt = <<>>
  /\ genai_api_key = ""
  /\ request = None

ValidateSpec == ValidateInit /\ [][ValidateInput]_vars

\* build_user_prompt applied to the code, the language and a mode (line 941)
BuildUserPrompt ==
  /\ pc = "idle"
  /\ pc' = "prompted"
  /\ user_prompt' = build_user_prompt(rpgle_input, selected_language, action_mode)
  /\ UNCHANGED <<session, attempt, last_error, response, raw_response, error,
                 trace, model_name, app, selected_language, genai_api_key,
                 request>>

\* build_user_prompt applied to any code, language and mode
PromptInit ==
  /\ selected_model = "Gemini Flash (Latest)"
  /\ gemini_api_key = ""
  /\ azure_api_key = ""
  /\ azure_endpoint = ""
  /\ azure_deployment = ""
  /\ pc = "idle"
  /\ attempt = 0
  /\ last_error = None
  /\ response = None
  /\ raw_response = None
  /\ error = ""
  /\ trace = <<>>
  /\ model_name = ""
  /\ rpgle_input \in Codes
  /\ action_mode \in PromptModes
  /\ sections = None
  /\ executive_summary = <<>>
  /\ technical_docs = <<>>
  /\ python_code = <<>>
  /\ last_action_mode = None
  /\ analysis_complete = FALSE
  /\ selected_language \in Languages
  /\ user_prompt = <<>>
  /\ genai_api_key = ""
  /\ request = None

PromptSpec == PromptInit /\ [][BuildUserPrompt]_vars

\* The page of a user of the Gemini models, with the request that produced
\* the stored sections recorded
ReportNext ==
  \/ SelectModel
  \/ EnterGeminiKey
  \/ SelectLanguage
  \/ EditInput
  \/ Clear
  \/ Analyze
  \/ PageGeminiAttempt
  \/ SleepReturns
  \/ CompleteRecorded
  \/ ShowError

ReportSpec == Init /\ [][ReportNext]_vars

\* Every provider call and every sleep returns
LiveSpec ==
  Spec /\ WF_vars(GeminiAttempt) /\ WF_vars(SleepReturns) /\ WF_vars(AzureAttempt)

\* ------------------------------------------------------------ properties
\* The dispatch in progress (or just finished) runs the retry loop of
\* call_gemini_api
InGeminiLoop == StartsWithGemini(selected_model) /\ trace # <<>>

\* The durations of the sleeps of this dispatch, in order
SleepWaits ==
  LET sleeps == SelectSeq(trace, LAMBDA x : x.ev = "sleep") IN
  [i \in 1..Len(sleeps) |-> sleeps[i].wait]

\* Failures of the given kinds seen so far, as positions of the trace
Fails(kinds) ==
  {i \in DOMAIN trace : trace[i].ev = "fail" /\ trace[i].kind \in kinds}

\* Event i is the last thing the dispatch did: it ended by raising, on the
\* attempt of event i, in the step that produced event i
EndsAt(i, j) ==
  /\ Len(trace) = j
  /\ trace[j].ev = "raise"
  /\ trace[j].attempt = trace[i].attempt
  /\ pc = "failed"
  /\ \A k \in (i + 1)..j : trace[k].ev \notin {"sleep", "call", "toast"}

\* The failure at position i was retried: a toast, then a sleep of `wait`,
\* then (once the sleep has returned and the call was made) the call of
\* the next attempt, and nothing else in between
RetriedWith(i, wait) ==
  /\ Len(trace) >= i + 2
  /\ trace[i + 1].ev = "toast"
  /\ trace[i + 2].ev = "sleep"
  /\ trace[i + 2].wait = wait
  /\ IF Len(trace) = i + 2
     THEN pc \in {"sleeping", "gemini_call"}
     ELSE /\ trace[i + 3].ev = "call"
          /\ trace[i + 3].attempt = trace[i].attempt + 1

\* C1: in a dispatch to Gemini (max_retries 2, base delay 5) a failure
\* classified RateLimited on attempt n <= 2 is followed by a sleep of exactly
\* 5*n and then by the call of attempt n+1; on attempt 3 it is followed by
\* the terminal rate-limit error, with no sleep and no further call.
C1_RateLimitBackoff ==
  InGeminiLoop =>
    \A i \in Fails({"RateLimited"}) :
      LET n == trace[i].attempt IN
      IF n <= 2
      THEN RetriedWith(i, 5 * n)
      ELSE /\ n = 3
           /\ EndsAt(i, i + 1)
           /\ error = "Rate limit reached after retries"

\* Witness of C1: rate-limited on attempts 1, 2 and 3; slept 5 then 10
C1_Witness ==
  /\ InGeminiLoop
  /\ pc = "failed"
  /\ error = "Rate limit reached after retries"
  /\ {trace[i].attempt : i \in Fails({"RateLimited"})} = {1, 2, 3}
  /\ SleepWaits = <<5, 10>>

C3_AuthSafetyTerminal ==
  \A i \in Fails({"AuthError", "SafetyBlocked"}) :
    /\ EndsAt(i, i + 1)
    /\ error # ""

\* Witness of C3: an authentication failure on the attempt after two retries
C3_Witness ==
  /\ pc = "failed"
  /\ \E i \in Fails({"AuthError"}) : trace[i].attempt = MAX_RETRIES + 1
  /\ Fails({"RateLimited"}) # {}
  /\ Fails({"Timeout"}) # {}

\* C4: in the retry loop, a failure of kind Unknown (its message matches no
\* phrase) and a call that returned an empty payload each end the dispatch
\* with a terminal error on that same attempt: no toast, no sleep and no
\* provider call follows.
C4_UnknownEmptyTerminal ==
  InGeminiLoop =>
    /\ \A i \in Fails({"Unknown"}) : EndsAt(i, i + 1) /\ error # ""
    /\ \A i \in Events("empty") : EndsAt(i, i + 2) /\ error # ""

\* Witness of C4: an empty payload on the attempt after a retry
C4_Witness ==
  /\ InGeminiLoop
  /\ pc = "failed"
  /\ \E i \in Events("empty") : trace[i].attempt > 1

\* The dispatch is waiting for a provider call or a sleep to return
Dispatching == pc \in {"gemini_call", "sleeping", "azure_call"}

\* The dispatch returned text or raised its terminal error
Finished == pc \in {"returned", "failed"}

\* The attempt numbers of the provider calls of this dispatch, in order
CallAttempts ==
  LET calls == SelectSeq(trace, LAMBDA x : x.ev = "call") IN
  [k \in 1..Len(calls) |-> calls[k].attempt]

\* C5 (as claimed): with either provider, a failure classified RateLimited
\* or Timeout on an attempt n <= max_retries is retried inside the dispatch
\* (the dispatch does not end before another provider call is made), and a
\* failure of any other kind is terminal on its first occurrence.
C5_RetriedForBothProviders ==
  /\ \A i \in Fails({"RateLimited", "Timeout"}) :
       (trace[i].attempt <= MAX_RETRIES /\ Finished) =>
         \E j \in Events("call") : j > i
  /\ \A i \in Fails({"AuthError", "SafetyBlocked", "NotFound", "Unknown"}) :
       EndsAt(i, i + 1)

\* C6: a dispatch makes at most max_retries + 1 provider calls, numbered
\* 1, 2, ... in order, and a call that succeeds with non-empty text is the
\* last thing it does: that text is returned in the same step, with no
\* toast, sleep or call after it.
C6_BoundedCalls ==
  /\ Calls <= MAX_RETRIES + 1
  /\ CallAttempts = [k \in 1..Calls |-> k]
  /\ (response # None /\ ~Falsy(response[1])) =>
       /\ pc = "returned"
       /\ raw_response = response
       /\ trace[Len(trace)].ev = "return"
       /\ trace[Len(trace) - 1].ev = "call"
       /\ trace[Len(trace) - 1].attempt = trace[Len(trace)].attempt

\* Witness of C6: text returned by the last allowed attempt
C6_Witness ==
  /\ pc = "returned"
  /\ Calls = MAX_RETRIES + 1
  /\ raw_response # None
  /\ ~Falsy(raw_response[1])

\* C7: every dispatch finishes, provided each provider call and each sleep
\* returns: it reaches "text returned" or "terminal error raised".
C7_Terminates == Dispatching ~> Finished

\* Witness of C7: a dispatch that finished after using every retry
C7_Witness == Finished /\ Len(SleepWaits) = MAX_RETRIES

\* The order and the phrases of the classification, as the claim states them
KindOrder == <<"AuthError", "RateLimited", "Timeout", "SafetyBlocked">>
Phrases(kind) ==
  CASE kind = "AuthError" -> {"api key", "invalid", "authenticate"}
    [] kind = "RateLimited" -> {"quota", "rate", "429", "resource"}
    [] kind = "Timeout" -> {"timeout", "deadline"}
    [] kind = "SafetyBlocked" -> {"safety", "blocked", "harm"}
Matching(msg) ==
  {k \in DOMAIN KindOrder : \E p \in Phrases(KindOrder[k]) : In(p, msg)}
FirstMatch(msg) ==
  IF Matching(msg) = {} THEN "Unknown"
  ELSE KindOrder[CHOOSE k \in Matching(msg) : \A m \in Matching(msg) : k <= m]

\* C8: the kind the retry loop assigns to a failure is the first match over
\* the lower-cased message in the order AuthError, RateLimited, Timeout,
\* SafetyBlocked, else Unknown; a message with phrases of several kinds gets
\* the earliest of them.
C8_FirstMatchWins ==
  (InGeminiLoop /\ last_error # None) =>
    \E i \in DOMAIN trace :
      /\ trace[i].ev = "fail"
      /\ \A j \in DOMAIN trace : trace[j].ev = "fail" => j <= i
      /\ trace[i].kind = FirstMatch(Lower(Str(last_error[1])))

\* Witness of C8: "timeout rate" holds phrases of two kinds; RateLimited wins
C8_Witness ==
  /\ InGeminiLoop
  /\ last_error = Some(<<"timeout rate">>)
  /\ Cardinality(Matching(Lower(Str(last_error[1])))) = 2
  /\ \E i \in Fails({"RateLimited"}) : i = Len(trace) - 2

\* C9 (as claimed): with either provider, a call that succeeds with an empty
\* or absent payload ends the dispatch with the terminal error of kind
\* EmptyResponse; the payload is not returned and no other kind is reported.
C9_EmptyIsEmptyResponse ==
  Events("empty") # {} =>
    /\ pc = "failed"
    /\ raw_response = None
    /\ error = "Empty response"
    /\ trace[Len(trace)].kind = "EmptyResponse"

\* C10 (as claimed): a message is classified alike whichever client it
\* comes from, and the retry decision taken for it is the same.
C10_UniformClassification ==
  (last_error # None /\ last_error[1] \in ProviderErrors) =>
    LET e == last_error[1]
        n == IF attempt = 0 THEN 1 ELSE attempt
    IN
    /\ GeminiKindOf[e] = AzureKindOf[e]
    /\ Retried(GeminiKindOf[e], n) = AzureRetried(AzureKindOf[e], n)

C14_ToastCitesWait ==
  \A i \in Events("sleep") :
    /\ i > 1
    /\ trace[i - 1].ev = "toast"
    /\ trace[i - 1].attempt = trace[i].attempt
    /\ trace[i - 1].wait = trace[i].wait
    /\ (i > 2 => trace[i - 2].ev # "toast")

Parsed == pc = "parsed"
\* the characters of the raw response that was parsed
Raw == Flat(raw_response[1][1])
\* the field of the result for a key
Field(key) ==
  CASE key = "executive_summary" -> sections[1].executive_summary
    [] key = "technical_docs" -> sections[1].technical_docs
    [] key = "python_code" -> sections[1].python_code
\* where the heading of each key first occurs in raw: None or Some(start)
Headings(raw) == [key \in KeySet |-> Search(raw, key)]
\* the trimmed text from the end of the line on which the heading of the
\* key starts to the start of the next heading located after it, or to the
\* end of the text when no heading follows
TextAfter(raw, at, key) ==
  LET later == {at[k][1] : k \in {q \in KeySet : at[q] # None}}
                 \cap (at[key][1] + 1)..Len(raw)
      stop == IF later = {} THEN Len(raw)
              ELSE CHOOSE i \in later : \A j \in later : i <= j
      breaks == {i \in (at[key][1] + 1)..Len(raw) : raw[i] = "\n"}
      from == IF breaks = {} THEN Len(raw)
              ELSE CHOOSE i \in breaks : \A j \in breaks : i <= j
  IN Strip(SubSeq(raw, from + 1, stop))
\* the text after each located heading (<<>> for a heading that is absent)
TextsAfter(raw, at) ==
  [key \in KeySet |-> IF at[key] = None THEN <<>> ELSE TextAfter(raw, at, key)]
\* what the section of a located heading holds: its text, or the section's
\* fallback sentinel when the text is empty
BodyOf(text, key) == IF text[key] = <<>> THEN Fallback(key) ELSE text[key]

\* C15 (as claimed): parse_llm_response returns a sections record for every
\* value a provider client can return, the absent payload included; it
\* never raises.
C15_ParserTotal == pc # "returned" => (Parsed /\ sections # None)

\* C16: in every result each of the three text fields is non-empty; a field
\* whose heading is absent, or whose body is empty after trimming, holds
\* the fallback sentinel of its section; the three sentinels differ.
C16_SentinelForMissing ==
  /\ Parsed =>
       \A raw \in {Raw} : \A at \in {Headings(raw)} :
       \A text \in {TextsAfter(raw, at)} :
          \A key \in KeySet :
            /\ Field(key) # <<>>
            /\ (at[key] = None \/ text[key] = <<>>) => Field(key) = Fallback(key)
  /\ \A k1, k2 \in KeySet : k1 # k2 => Fallback(k1) # Fallback(k2)

\* Witness of C16: one heading is absent and another has an empty body
C16_Witness ==
  /\ Parsed
  /\ \A raw \in {Raw} : \A at \in {Headings(raw)} :
     \A text \in {TextsAfter(raw, at)} :
        /\ at["technical_docs"] = None
        /\ at["python_code"] # None /\ text["python_code"] = <<>>
        /\ at["executive_summary"] # None /\ text["executive_summary"] # <<>>

\* C17: when all three headings occur, in whichever of the six orders, each
\* section's body is the trimmed text from the end of its heading's line to
\* the start of the next located heading in document order (the end of the
\* text for the last one); the sentinel stands for an empty body (C16).
C17_BodiesInDocumentOrder ==
  Parsed =>
    \A raw \in {Raw} : \A at \in {Headings(raw)} :
    \A text \in {TextsAfter(raw, at)} :
       (\A key \in KeySet : at[key] # None) =>
         \A key \in KeySet : Field(key) = BodyOf(text, key)

\* Witness of C17: the Python section comes first and the summary last, and
\* every section has text of its own
C17_Witness ==
  /\ Parsed
  /\ \A raw \in {Raw} : \A at \in {Headings(raw)} :
     \A text \in {TextsAfter(raw, at)} :
        /\ \A key \in KeySet : at[key] # None /\ text[key] # <<>>
        /\ at["python_code"][1] < at["technical_docs"][1]
        /\ at["technical_docs"][1] < at["executive_summary"][1]
        /\ \A key \in KeySet : Field(key) = text[key]

\* C18: for every subset of the headings that occurs, a section whose
\* heading is absent holds its sentinel and a section whose heading occurs
\* is extracted with only the headings that occur as boundaries; with no
\* heading at all, all three sections hold their sentinels.
C18_SubsetsOfHeadings ==
  Parsed =>
    \A raw \in {Raw} : \A at \in {Headings(raw)} :
    \A text \in {TextsAfter(raw, at)} :
       /\ \A key \in KeySet :
            Field(key) = IF at[key] # None THEN BodyOf(text, key)
                         ELSE Fallback(key)
       /\ (\A key \in KeySet : at[key] = None) =>
            /\ sections[1].executive_summary = Chars(NO_SUMMARY)
            /\ sections[1].technical_docs = Chars(NO_DOCS)
            /\ sections[1].python_code = Chars(NO_PYTHON)

\* Witness of C18: only the technical documentation and the Python section
\* occur, Python first, after some text that belongs to no section
C18_Witness ==
  /\ Parsed
  /\ \A raw \in {Raw} : \A at \in {Headings(raw)} :
     \A text \in {TextsAfter(raw, at)} :
        /\ at["executive_summary"] = None
        /\ at["technical_docs"] # None /\ at["python_code"] # None
        /\ 0 < at["python_code"][1]
        /\ at["python_code"][1] < at["technical_docs"][1]
        /\ text["python_code"] # <<>> /\ text["technical_docs"] # <<>>
        /\ Field("python_code") = text["python_code"]
        /\ Field("technical_docs") = text["technical_docs"]
        /\ Field("executive_summary") = Chars(NO_SUMMARY)

\* C19 (as claimed): python_code_truncated is true exactly when the
\* python_code body holds an odd number of code fences, whatever the body
\* starts with, and it is false, not absent, otherwise.
C19_TruncatedIffOddFences ==
  Parsed =>
    sections[1].python_code_truncated =
      Some(Count(sections[1].python_code, Chars("'''")) % 2 = 1)

\* ---- the run of an analysis on the page
\* validate_input has to reject the code: empty, blanks only, or too long
Rejected(code) ==
  code = <<>> \/ IsBlank(code) \/ CodeLen(code) > INPUT_MAX_CHARS
\* a credential the selected provider needs is empty
CredentialMissing ==
  \/ StartsWithGemini(selected_model) /\ gemini_api_key = ""
  \/ /\ StartsWithAzure(selected_model)
     /\ "" \in {azure_api_key, azure_endpoint, azure_deployment}
\* an analysis run is under way (a button was clicked, the page not yet shown)
Running == pc # "idle" /\ action_mode # ""

\* C13: in a run whose source validate_input rejects (empty, whitespace
\* only, longer than INPUT_MAX_CHARS) or whose provider lacks a required
\* credential, the run is rejected before any provider call: it fails and
\* no call has been made.
C13_NoCallWhenRejected ==
  (Running /\ (Rejected(rpgle_input) \/ CredentialMissing)) =>
    /\ pc = "failed"
    /\ Calls = 0

\* Witness of C13: code one character over the limit, the Gemini key set:
\* the run fails on the input alone, with no call
C13_Witness ==
  /\ Running
  /\ ~IsBlank(rpgle_input)
  /\ CodeLen(rpgle_input) = INPUT_MAX_CHARS + 1
  /\ StartsWithGemini(selected_model) /\ gemini_api_key # ""
  /\ pc = "failed"
  /\ error = "Input too large"
  /\ Calls = 0

\* the text under the title of the report on the page
InReport(title) ==
  LET parts == Report[1]
  IN parts[CHOOSE i \in DOMAIN parts : parts[i].title = title].body

\* C20: after a completed docs_only run, whatever the raw text was, the
\* Python section of the report holds nothing beyond the Python fallback
\* sentinel, and never the Python body the parser extracted in that run.
C20_NoPythonAfterDocsOnly ==
  (pc = "idle" /\ last_action_mode = Some("docs_only") /\ Report # None) =>
    /\ InReport("Modernized Python Code") \in {<<>>, Chars(NO_PYTHON)}
    /\ (sections # None /\ sections[1].python_code # Chars(NO_PYTHON)) =>
         InReport("Modernized Python Code") # sections[1].python_code

\* Witness of C20: a docs_only run has just completed on a raw text with a
\* '## PYTHON CODE' heading and a body, and the page offers the report
C20_Witness ==
  /\ pc = "idle"
  /\ last_action_mode = Some("docs_only")
  /\ sections # None
  /\ sections[1].python_code # Chars(NO_PYTHON)
  /\ Count(sections[1].python_code, Chars("'''")) = 2
  /\ Report # None

\* ---- the attempt counter of the retry loop
RECURSIVE Sum(_)
Sum(ws) == IF ws = <<>> THEN 0 ELSE Head(ws) + Sum(Tail(ws))
\* the sleeps of this dispatch that come before position i of the trace
SleepsBefore(i) == {j \in Events("sleep") : j < i}

\* C27: RateLimited and Timeout retries share one attempt counter: a
\* dispatch retries at most max_retries times, both kinds together; the
\* sleep after a RateLimited failure on attempt n lasts base_delay * n,
\* n being one more than the retries so far of either kind; and the sleeps
\* of a dispatch add up to at most base_delay * (1 + ... + max_retries).
C27_SharedAttemptCounter ==
  /\ Cardinality(Events("sleep")) <= MAX_RETRIES
  /\ \A i \in Events("sleep") :
       /\ trace[i].attempt = Cardinality(SleepsBefore(i)) + 1
       /\ trace[i].kind = "RateLimited" =>
            trace[i].wait = RETRY_DELAY_SECS * trace[i].attempt
  /\ Sum(SleepWaits) <= RETRY_DELAY_SECS * ((MAX_RETRIES * (MAX_RETRIES + 1)) \div 2)

\* Witness of C27: a Timeout on attempt 1, then a RateLimited failure on
\* attempt 2 that is slept off for base_delay * 2
C27_Witness ==
  /\ pc = "sleeping"
  /\ SleepWaits = <<TIMEOUT_SLEEP_SECS, RETRY_DELAY_SECS * 2>>
  /\ \E i, k \in Events("sleep") :
       /\ trace[i].kind = "Timeout" /\ trace[i].attempt = 1
       /\ trace[k].kind = "RateLimited" /\ trace[k].attempt = 2

\* C29: the raise placed after the retry loop of call_gemini_api is never
\* reached: a dispatch ends by returning text or by a raise from inside
\* the loop body, never by running out of attempts.
C29_LoopNeverExhausted ==
  /\ error # "Failed after retries"
  /\ \A i \in DOMAIN trace : trace[i].kind # "Exhausted"
  /\ pc = "sleeping" => NextAttempt(attempt) \in AttemptRange

\* Witness of C29: the last attempt fails with a kind that is retried on
\* earlier attempts, and the raise comes from the handler
C29_Witness ==
  /\ pc = "failed"
  /\ attempt = MAX_RETRIES + 1
  /\ Cardinality(Events("sleep")) = MAX_RETRIES
  /\ trace[Len(trace)].ev = "raise"
  /\ trace[Len(trace)].kind \in {"RateLimited", "Timeout"}
  /\ trace[Len(trace)].attempt = MAX_RETRIES + 1

\* ---- C23 (ValidateSpec)
\* C23: validate_input rejects every empty or whitespace-only code with the
\* 'paste code' message, accepts every code that is not blank and has at
\* most INPUT_MAX_CHARS characters, and rejects every code that is not blank
\* and has INPUT_MAX_CHARS + 1 characters or more with the size-limit
\* message, which cites the character count and the count divided by 4,
\* rounded down.
C23_ValidateInputBoundaries ==
  pc # "idle" =>
    \A code \in {rpgle_input} : \A checked \in {validate_input(code)} :
      /\ (pc = "validated") = checked.is_valid
      /\ error = checked.error_msg
      /\ IsBlank(code) =>
           /\ pc = "failed"
           /\ error = "Please paste some code"
      /\ (~IsBlank(code) /\ CodeLen(code) <= INPUT_MAX_CHARS) =>
           /\ pc = "validated"
           /\ error = ""
      /\ (~IsBlank(code) /\ CodeLen(code) >= INPUT_MAX_CHARS + 1) =>
           /\ pc = "failed"
           /\ error = "Input too large"
           /\ checked.cited = <<CodeLen(code), CodeLen(code) \div 4>>
           /\ 4 * checked.cited[2] <= CodeLen(code)
           /\ CodeLen(code) < 4 * (checked.cited[2] + 1)

\* Code of INPUT_MAX_CHARS + 1 characters, a number 4 does not divide, was
\* rejected for its size
C23_Witness ==
  /\ pc = "failed"
  /\ error = "Input too large"
  /\ CodeLen(rpgle_input) = INPUT_MAX_CHARS + 1
  /\ CodeLen(rpgle_input) % 4 # 0

\* ---- C25 (PromptSpec)
\* C25: build_user_prompt takes the instruction from a mapping of exactly
\* three modes (full, docs_only, python_only), one instruction per mode,
\* and for every mode outside the mapping the prompt it returns is the one
\* it returns for mode full.
C25_UnknownModeIsFull ==
  /\ DOMAIN mode_instruction = {"full", "docs_only", "python_only"}
  /\ \A m, n \in DOMAIN mode_instruction :
       mode_instruction[m] = mode_instruction[n] => m = n
  /\ pc = "prompted" =>
       /\ user_prompt.language = selected_language
       /\ user_prompt.legacy_code = rpgle_input
       /\ action_mode \in DOMAIN mode_instruction =>
            user_prompt.instruction = mode_instruction[action_mode]
       /\ action_mode \notin DOMAIN mode_instruction =>
            /\ user_prompt.instruction = mode_instruction["full"]
            /\ user_prompt =
                 build_user_prompt(rpgle_input, selected_language, "full")

\* The prompt of a mode outside the mapping was built
C25_Witness ==
  /\ pc = "prompted"
  /\ action_mode = "FULL"
  /\ user_prompt.instruction = "Provide ALL THREE sections"
  /\ rpgle_input # <<>>

\* ---- C24 (Spec)
\* C24: a provider client call leaves the global state of the process as it
\* was: the google.generativeai module, which holds no key when the process
\* starts, holds none once the call is over (returned or raised), so that
\* no later call can read the key of an earlier one.
C24_NoGlobalConfiguration ==
  pc \in {"idle", "returned", "failed"} => genai_api_key = ""

\* ---- C21 (PageSpec)
\* the titles of the three sections of the report, in the order written
SectionTitles ==
  <<"Executive Summary", "Technical Documentation", "Modernized Python Code">>
\* the sections the last completed run did not store, with their sentinels
NotProduced ==
  CASE last_action_mode = Some("docs_only") ->
         {<<"Modernized Python Code", Chars(NO_PYTHON)>>}
    [] last_action_mode = Some("python_only") ->
         {<<"Executive Summary", Chars(NO_SUMMARY)>>,
          <<"Technical Documentation", Chars(NO_DOCS)>>}
    [] OTHER -> {}

\* C21: in every report the page assembles after a run, the three sections
\* come in the order summary, docs, code, none of them is empty text, and a
\* section the run did not produce holds its fallback sentinel.
C21_SentinelForNotProduced ==
  Report # None =>
    \A parts \in {Report[1]} :
      /\ \E i \in DOMAIN parts :
           /\ i + 2 \in DOMAIN parts
           /\ \A k \in 1..3 : parts[i + k - 1].title = SectionTitles[k]
      /\ \A k \in 1..3 : InReport(SectionTitles[k]) # <<>>
      /\ \A np \in NotProduced : InReport(np[1]) = np[2]

\* ---- C22 (ReportSpec)
\* C22: whenever the page assembles a report, the source code, the provider
\* name and the language the report shows are those of the request that
\* produced the sections stored, whatever was edited or selected since.
C22_ReportOfTheRequest ==
  (Report # None /\ request # None) =>
    /\ InReport("Original Code") = request[1].legacy_code
    /\ InReport("Model") = request[1].model
    /\ InReport("Language") = request[1].language

\* ---- C26 (PageSpec)
\* a run is ending with sections to store: call_llm returned a text
Succeeding == pc = "returned" /\ raw_response # Some(None)

\* C26: a run that ends in an error (input rejected, credentials missing,
\* provider error not retried, exception of the parser) leaves the stored
\* results as they were before the run: no step of a run changes
\* executive_summary, technical_docs, python_code, last_action_mode or
\* analysis_complete, except the step that ends a run whose response was
\* parsed.
C26_ErrorKeepsResults ==
  [][((pc' # "idle") \/ (pc # "idle" /\ ~Succeeding)) => UNCHANGED results]_vars

\* Witness of C26: with the results of an earlier full run stored, a later
\* run is ending in the exception the parser raises for a None response
C26_Witness ==
  /\ pc = "returned"
  /\ raw_response = Some(None)
  /\ analysis_complete
  /\ last_action_mode = Some("full")
  /\ python_code # <<>>
  /\ action_mode = "docs_only"

\* ---- C28 (PageSpec)
\* the three sections the session stores
StoredSections ==
  [executive_summary |-> executive_summary, technical_docs |-> technical_docs,
   python_code |-> python_code]
NoSections ==
  [executive_summary |-> <<>>, technical_docs |-> <<>>, python_code |-> <<>>]
\* The stored sections agree with the mode of the last completed run
AgreeWithMode ==
  /\ analysis_complete =>
       /\ last_action_mode \in {Some(mode) : mode \in Modes}
       /\ last_action_mode = Some("docs_only") => python_code = <<>>
       /\ last_action_mode = Some("python_only") =>
            executive_summary = <<>> /\ technical_docs = <<>>
  /\ ~analysis_complete => StoredSections = NoSections
\* Every stored section that is not empty is what the parser returned in
\* the run that stored it; no later step changes it but Clear and the next
\* run that stores, and Clear empties all three
StoredByLastRun ==
  /\ (Succeeding /\ pc' = "idle") =>
       /\ analysis_complete'
       /\ sections' # None
       /\ \A key \in DOMAIN StoredSections :
            StoredSections'[key] \in {<<>>, sections'[1][key]}
  /\ ~(Succeeding /\ pc' = "idle") =>
       \/ StoredSections' = StoredSections /\ UNCHANGED analysis_complete
       \/ Clear
  /\ Clear => (~analysis_complete' /\ StoredSections' = NoSections)

\* C28: whenever analysis_complete is true, last_action_mode is one of
\* full, docs_only, python_only and the stored sections agree with it
\* (docs_only: no python_code; python_only: no executive_summary and no
\* technical_docs), every stored section that is not empty was produced by
\* the most recent run that completed, and after Clear analysis_complete is
\* false and the three stored sections are empty.
C28_StoredAgreeWithLastRun == []AgreeWithMode /\ [][StoredByLastRun]_vars

\* Witness of C28: after a full run stored three sections, a python_only
\* run has completed and only its Python section is stored
C28_Witness ==
  /\ pc = "idle"
  /\ analysis_complete
  /\ last_action_mode = Some("python_only")
  /\ sections # None
  /\ python_code = sections[1].python_code
  /\ python_code # Chars(NO_PYTHON)
  /\ executive_summary = <<>>
  /\ technical_docs = <<>>
  /\ sections[1].executive_summary # Chars(NO_SUMMARY)

====
